---- MODULE Spec2Model ----
(***************************************************************************)
(* Model of pandeia.engine.exposure: the ExposureSpecification timing      *)
(* model, the saturation estimator (get_unsaturated_groups) and the two    *)
(* slope-variance models (standard and target acquisition).                *)
(*                                                                         *)
(* Numbers.  The code computes in IEEE doubles; the model computes in      *)
(* exact rationals [n |-> numerator, d |-> denominator], d > 0, in lowest  *)
(* terms, with d = 0 standing for +infinity (the value numpy gives for     *)
(* fullwell / 0.0).  Rounding error of the doubles is not modelled.        *)
(*                                                                         *)
(* Units.  Slopes and full wells are counted in units of SlopeUnit =       *)
(* 0.5e-10 (e-/s and e-), so that the clipping floor 1e-10 of              *)
(* get_unsaturated_groups is the integer SlopeFloor = 2 and a positive     *)
(* slope below the floor (1) is representable.  Times are in seconds.      *)
(***************************************************************************)
EXTENDS Integers, Sequences, FiniteSets, TLC

VARIABLES pc, spec, call, unsat_map

vars == <<pc, spec, call, unsat_map>>

---------------------------------------------------------------------------
(* Bounds of the model *)

MaxNgroup == 6
MaxRej == 2
MaxSlope == 3
MaxFullwell == 2
MaxExtract == 4
MaxFullSat == 2

(* the values a full well takes: multiples of FullwellStep slope units *)
FullwellStep == 4
FullwellVals == {k * FullwellStep : k \in 1..MaxFullwell}
SlopeVals == (-1)..MaxSlope
Pixels == {1, 2}
SlopeArrays == [Pixels -> SlopeVals]
FullSatVals == 1..MaxFullSat
RejVals == 0..MaxRej
NgroupVals == 1..MaxNgroup
ExtractVals == 0..MaxExtract
DetTypes == {"h2rg", "sias", "ccd"}

---------------------------------------------------------------------------
(* Exact rational arithmetic standing for the code's float arithmetic *)

Abs(x) == IF x < 0 THEN -x ELSE x

RECURSIVE GCD(_, _)
GCD(a, b) == IF b = 0 THEN a ELSE GCD(b, a % b)

Norm(n, d) ==
    IF d = 0 THEN [n |-> IF n < 0 THEN -1 ELSE 1, d |-> 0]
    ELSE LET g == GCD(Abs(n), Abs(d))
             s == IF d < 0 THEN -1 ELSE 1
         IN  [n |-> s * (n \div g), d |-> s * (d \div g)]

I(x) == [n |-> x, d |-> 1]
Inf == [n |-> 1, d |-> 0]
IsInf(a) == a.d = 0

RAdd(a, b) == Norm(a.n * b.d + b.n * a.d, a.d * b.d)
RSub(a, b) == Norm(a.n * b.d - b.n * a.d, a.d * b.d)
RMul(a, b) == Norm(a.n * b.n, a.d * b.d)
(* numpy float division: x / 0.0 is +inf for x > 0 (callers never divide 0 or
   a negative number by zero) *)
RDiv(a, b) == Norm(a.n * b.d, a.d * b.n)
RLt(a, b) == a.n * b.d < b.n * a.d
RLe(a, b) == a.n * b.d <= b.n * a.d
RMin(a, b) == IF RLe(a, b) THEN a ELSE b
RMax(a, b) == IF RLe(a, b) THEN b ELSE a
(* np.floor: floor(inf) = inf *)
RFloor(a) == IF IsInf(a) THEN a ELSE I(a.n \div a.d)
(* np.ceil *)
RCeil(a) == IF IsInf(a) THEN a ELSE I(-((-a.n) \div a.d))
Half == [n |-> 1, d |-> 2]

---------------------------------------------------------------------------
(* Errors a call can raise *)

NoErr == [type |-> "none", msg |-> "none"]
UnknownDetectorError == [type |-> "ValueError", msg |-> "Unknown detector type"]
FudgeError == [type |-> "ValueError", msg |-> "Only one of rn_fudge or excessp1/p2 maybe used, not both."]
ExtractError == [type |-> "EngineInputError", msg |-> "Number of groups to extract must be less than or equal to the number of groups"]
PairsError == [type |-> "EngineInputError", msg |-> "Target acquisition currently only supports 2 or 3 extracted groups."]
ZeroDivisionError == [type |-> "ZeroDivisionError", msg |-> "float division by zero"]

(* no specification object (construction not done, or it raised) *)
NoSpec == [cls |-> "None"]

HasAttr(s, a) == a \in DOMAIN s

---------------------------------------------------------------------------
(* Timing model *)

(* mutant of get_times_nir: the first frame of the ramp is not counted in the
   exposure and saturation times *)
get_times_nir_NoFirstFrame(self) ==
    LET ramp == (self.ngroup - 1) * (self.nframe + self.nskip)
        tgroup == I(self.tframe * (self.nframe + self.nskip))
        mt0 == I(self.tframe * self.nint * ramp)
        measurement_time ==
            IF self.frame0
            THEN RAdd(mt0, RMul(Half, I(self.nint * self.tframe * self.nframe)))
            ELSE mt0
        exposure_time == I((self.tframe + self.tfffr) * self.nint
                           + self.tframe * (self.nint * ramp))
        saturation_time == I(self.tfffr + self.tframe * ramp)
    IN  [tgroup |-> tgroup,
         measurement_time |-> measurement_time,
         exposure_time |-> exposure_time,
         saturation_time |-> saturation_time,
         duty_cycle |-> RDiv(measurement_time, exposure_time),
         total_exposure_time |-> RMul(I(self.nexp), exposure_time),
         total_integrations |-> self.nexp * self.nint]

(* mutant of get_times_nir: the totals are those of a single exposure *)
get_times_nir_SingleExposure(self) ==
    LET ramp == (self.ngroup - 1) * (self.nframe + self.nskip)
        tgroup == I(self.tframe * (self.nframe + self.nskip))
        mt0 == I(self.tframe * self.nint * ramp)
        measurement_time ==
            IF self.frame0
            THEN RAdd(mt0, RMul(Half, I(self.nint * self.tframe * self.nframe)))
            ELSE mt0
        exposure_time == I((self.tframe + self.tfffr) * self.nint
                           + self.tframe * (self.nint * (ramp + self.nframe)))
        saturation_time == I(self.tfffr + self.tframe * (ramp + self.nframe))
    IN  [tgroup |-> tgroup,
         measurement_time |-> measurement_time,
         exposure_time |-> exposure_time,
         saturation_time |-> saturation_time,
         duty_cycle |-> RDiv(measurement_time, exposure_time),
         total_exposure_time |-> exposure_time,
         total_integrations |-> self.nint]

(* ExposureSpecification.get_times_nir: the derived attributes it sets *)
get_times_nir(self) ==
    LET ramp == (self.ngroup - 1) * (self.nframe + self.nskip)
        tgroup == I(self.tframe * (self.nframe + self.nskip))
        mt0 == I(self.tframe * self.nint * ramp)
        measurement_time ==
            IF self.frame0
            THEN RAdd(mt0, RMul(Half, I(self.nint * self.tframe * self.nframe)))
            ELSE mt0
        exposure_time == I((self.tframe + self.tfffr) * self.nint
                           + self.tframe * (self.nint * (ramp + self.nframe)))
        saturation_time == I(self.tfffr + self.tframe * (ramp + self.nframe))
    IN  [tgroup |-> tgroup,
         measurement_time |-> measurement_time,
         exposure_time |-> exposure_time,
         saturation_time |-> saturation_time,
         duty_cycle |-> RDiv(measurement_time, exposure_time),
         total_exposure_time |-> RMul(I(self.nexp), exposure_time),
         total_integrations |-> self.nexp * self.nint]

(* Valenti et al. 2017: rejected groups count only from this ngroup on *)
BrightNgroup == 5

(* mutant of get_times_mir: the rejected groups are subtracted for every ngroup *)
get_times_mir_AlwaysRejects(self) ==
    LET tgroup == I(self.tframe * (self.nframe + self.nskip))
        measurement_time ==
            RMul(I(self.nint * (self.ngroup - 1 - (self.nprerej + self.npostrej))), tgroup)
        exposure_time == I(self.nint * (self.tfffr + self.ngroup * self.nframe * self.tframe))
        saturation_time == I(self.tfffr + self.ngroup * self.nframe * self.tframe)
    IN  [tgroup |-> tgroup,
         measurement_time |-> measurement_time,
         exposure_time |-> exposure_time,
         saturation_time |-> saturation_time,
         duty_cycle |-> RDiv(measurement_time, exposure_time),
         total_exposure_time |-> RMul(I(self.nexp), exposure_time),
         total_integrations |-> self.nexp * self.nint]

(* mutant of get_times_mir: in the bright regime the rejected groups are
   taken out of the saturation time *)
get_times_mir_SaturationRejects(self) ==
    LET tgroup == I(self.tframe * (self.nframe + self.nskip))
        measurement_time ==
            IF self.ngroup >= BrightNgroup
            THEN RMul(I(self.nint * (self.ngroup - 1 - (self.nprerej + self.npostrej))), tgroup)
            ELSE RSub(RMul(I(self.nint), RAdd(I(self.tfffr), RMul(I(self.ngroup), tgroup))),
                      RMul(I(self.nint * self.tframe), RMul(Half, I(self.nframe - 1))))
        exposure_time == I(self.nint * (self.tfffr + self.ngroup * self.nframe * self.tframe))
        saturation_time ==
            IF self.ngroup >= BrightNgroup
            THEN I(self.tfffr + (self.ngroup - self.npostrej) * self.nframe * self.tframe)
            ELSE I(self.tfffr + self.ngroup * self.nframe * self.tframe)
    IN  [tgroup |-> tgroup,
         measurement_time |-> measurement_time,
         exposure_time |-> exposure_time,
         saturation_time |-> saturation_time,
         duty_cycle |-> RDiv(measurement_time, exposure_time),
         total_exposure_time |-> RMul(I(self.nexp), exposure_time),
         total_integrations |-> self.nexp * self.nint]

(* mutant of get_times_mir: the reset overhead is paid once per exposure *)
get_times_mir_OverheadOnce(self) ==
    LET tgroup == I(self.tframe * (self.nframe + self.nskip))
        measurement_time ==
            IF self.ngroup >= BrightNgroup
            THEN RMul(I(self.nint * (self.ngroup - 1 - (self.nprerej + self.npostrej))), tgroup)
            ELSE RSub(RMul(I(self.nint), RAdd(I(self.tfffr), RMul(I(self.ngroup), tgroup))),
                      RMul(I(self.nint * self.tframe), RMul(Half, I(self.nframe - 1))))
        exposure_time == I(self.tfffr + self.nint * self.ngroup * self.nframe * self.tframe)
        saturation_time == I(self.tfffr + self.ngroup * self.nframe * self.tframe)
    IN  [tgroup |-> tgroup,
         measurement_time |-> measurement_time,
         exposure_time |-> exposure_time,
         saturation_time |-> saturation_time,
         duty_cycle |-> RDiv(measurement_time, exposure_time),
         total_exposure_time |-> RMul(I(self.nexp), exposure_time),
         total_integrations |-> self.nexp * self.nint]

(* ExposureSpecification.get_times_mir: the derived attributes it sets *)
get_times_mir(self) ==
    LET tgroup == I(self.tframe * (self.nframe + self.nskip))
        measurement_time ==
            IF self.ngroup >= BrightNgroup
            THEN RMul(I(self.nint * (self.ngroup - 1 - (self.nprerej + self.npostrej))), tgroup)
            ELSE RSub(RMul(I(self.nint), RAdd(I(self.tfffr), RMul(I(self.ngroup), tgroup))),
                      RMul(I(self.nint * self.tframe), RMul(Half, I(self.nframe - 1))))
        exposure_time == I(self.nint * (self.tfffr + self.ngroup * self.nframe * self.tframe))
        saturation_time == I(self.tfffr + self.ngroup * self.nframe * self.tframe)
    IN  [tgroup |-> tgroup,
         measurement_time |-> measurement_time,
         exposure_time |-> exposure_time,
         saturation_time |-> saturation_time,
         duty_cycle |-> RDiv(measurement_time, exposure_time),
         total_exposure_time |-> RMul(I(self.nexp), exposure_time),
         total_integrations |-> self.nexp * self.nint]

(* the attributes __init__ stores from its arguments *)
StoredInputs(cls, p) ==
    [cls |-> cls, det_type |-> p.det_type, pattern |-> p.pattern, ngroup |-> p.ngroup,
     nint |-> p.nint, nexp |-> p.nexp, tframe |-> p.tframe, tfffr |-> p.tfffr,
     nframe |-> p.nframe, subarray |-> p.subarray, nskip |-> p.nskip,
     nprerej |-> p.nprerej, npostrej |-> p.npostrej, nsample |-> p.nsample,
     nsample_skip |-> p.nsample_skip, frame0 |-> p.frame0]

(* mutant of DetBranch: every detector that is not 'sias' is timed as 'h2rg' *)
DetBranchNirByDefault(det_type) ==
    IF det_type = "sias" THEN "mir" ELSE "nir"

(* the detector-type dispatch of __init__: which timing routine runs *)
DetBranch(det_type) ==
    IF det_type = "sias" THEN "mir"
    ELSE IF det_type = "h2rg" THEN "nir"
    ELSE "raise"

(* ExposureSpecification.__init__: [err, obj]; obj is what the caller gets *)
ExposureSpecification_init(cls, p) ==
    LET self == StoredInputs(cls, p)
        branch == DetBranch(p.det_type)
    IN  IF branch = "mir"
        THEN [err |-> NoErr,
              obj |-> self @@ get_times_mir(self)
                      @@ [tsample |-> RDiv(I(self.tframe), I(self.nsample + self.nsample_skip)),
                          nsample_total |-> self.nframe * self.nsample,
                          nramps |-> self.nint * self.nexp]]
        ELSE IF branch = "nir"
        THEN [err |-> NoErr,
              obj |-> self @@ get_times_nir(self) @@ [nramps |-> self.nint * self.nexp]]
        ELSE [err |-> UnknownDetectorError, obj |-> NoSpec]

(* ExposureSpecificationTA.__init__: the base constructor is called without
   nsample, tfffr and frame0, which take the base defaults 1, 0 and False *)
ExposureSpecificationTA_init(q) ==
    LET p == [det_type |-> q.det_type, pattern |-> q.pattern, ngroup |-> q.ngroup,
              nint |-> q.nint, nexp |-> q.nexp, tframe |-> q.tframe, tfffr |-> 0,
              nframe |-> q.nframe, subarray |-> q.subarray, nskip |-> q.nskip,
              nprerej |-> q.nprerej, npostrej |-> q.npostrej, nsample |-> 1,
              nsample_skip |-> q.nsample_skip, frame0 |-> FALSE]
        base == ExposureSpecification_init("ExposureSpecificationTA", p)
    IN  IF base.err # NoErr THEN base
        ELSE [err |-> NoErr, obj |-> base.obj @@ [ngroup_extract |-> q.ngroup_extract]]

---------------------------------------------------------------------------
(* Inputs of the constructors *)

NframeVals == {1, 4}     \* perfect squares, so that np.sqrt(m) is exact
NsampleVals == {1, 4}

(* every combination of valid timing parameters, and every detector type *)
TimingParams ==
    [det_type : DetTypes, pattern : {"fast"}, ngroup : NgroupVals, nint : {1, 2},
     nexp : {1, 2}, tframe : {1, 2}, tfffr : {0, 1}, nframe : NframeVals,
     subarray : {"Full"}, nskip : {0, 1}, nprerej : RejVals, npostrej : RejVals,
     nsample : NsampleVals, nsample_skip : {0, 1}, frame0 : BOOLEAN]

TimingParamsTA ==
    [det_type : DetTypes, pattern : {"fast"}, ngroup : NgroupVals,
     ngroup_extract : ExtractVals, nint : {1, 2},
     nexp : {1}, tframe : {1, 2}, nframe : NframeVals,
     subarray : {"Full"}, nskip : {0, 1}, nprerej : {0}, npostrej : {0},
     nsample : NsampleVals, nsample_skip : {0, 1}]

(* a single-frame, single-integration h2rg ramp of ten 10 s groups *)
ExampleNirParams ==
    [det_type |-> "h2rg", pattern |-> "fast", ngroup |-> 10, nint |-> 1,
     nexp |-> 1, tframe |-> 10, tfffr |-> 0, nframe |-> 1,
     subarray |-> "Full", nskip |-> 0, nprerej |-> 0, npostrej |-> 0,
     nsample |-> 1, nsample_skip |-> 0, frame0 |-> FALSE]

(* a target acquisition that extracts 3 of 11 groups *)
ExampleTAParams ==
    [det_type |-> "h2rg", pattern |-> "fast", ngroup |-> 11,
     ngroup_extract |-> 3, nint |-> 1,
     nexp |-> 1, tframe |-> 1, nframe |-> 1,
     subarray |-> "Full", nskip |-> 0, nprerej |-> 0, npostrej |-> 0,
     nsample |-> 1, nsample_skip |-> 1]

(* the specifications the saturation and variance operations are run on *)
OpsParams ==
    [det_type : {"h2rg", "sias"}, pattern : {"fast"}, ngroup : NgroupVals, nint : {1},
     nexp : {1}, tframe : {1}, tfffr : {0}, nframe : NframeVals,
     subarray : {"Full"}, nskip : {0, 1}, nprerej : RejVals, npostrej : RejVals,
     nsample : {1}, nsample_skip : {0}, frame0 : {FALSE}]

OpsParamsTA ==
    [det_type : {"h2rg", "sias"}, pattern : {"fast"}, ngroup : NgroupVals,
     ngroup_extract : ExtractVals, nint : {1},
     nexp : {1}, tframe : {1}, nframe : NframeVals,
     subarray : {"Full"}, nskip : {0, 1}, nprerej : {0}, npostrej : {0},
     nsample : {1}, nsample_skip : {1}]

---------------------------------------------------------------------------
(* Saturation estimator *)

(* the floor the slope is clipped to, 1e-10, in slope units of 0.5e-10 *)
SlopeFloor == 2

(* the default of full_saturation *)
DefaultFullSaturation == 2

(* np.max over the pixels of an array of integers *)
ArrayMax(a) == CHOOSE x \in {a[i] : i \in DOMAIN a} : \A j \in DOMAIN a : a[j] <= x

(* ndarray.clip(a_min, a_max) = minimum(a_max, maximum(x, a_min)); when
   a_min > a_max every element becomes a_max *)
Clip(x, a_min, a_max) == RMin(a_max, RMax(x, a_min))

(* slope.clip(1e-10, np.max(slope)), one pixel *)
ClippedSlope(slope, i) == Clip(I(slope[i]), I(SlopeFloor), I(ArrayMax(slope)))

(* mutant of MaxNgroups: the fraction is rounded up *)
MaxNgroupsRoundedUp(self, slope, fullwell, i) ==
    LET time_to_saturate == RDiv(I(fullwell), ClippedSlope(slope, i))
        unsat_ramp_frac == RDiv(time_to_saturate, self.saturation_time)
        unsat_ngroups_frac == RMul(unsat_ramp_frac, I(self.ngroup))
    IN  Clip(RCeil(unsat_ngroups_frac), I(0), I(self.ngroup))

(* mutant of MaxNgroups: the count is not clipped to ngroup *)
MaxNgroupsNoCeiling(self, slope, fullwell, i) ==
    LET time_to_saturate == RDiv(I(fullwell), ClippedSlope(slope, i))
        unsat_ramp_frac == RDiv(time_to_saturate, self.saturation_time)
        unsat_ngroups_frac == RMul(unsat_ramp_frac, I(self.ngroup))
    IN  RMax(RFloor(unsat_ngroups_frac), I(0))

(* np.floor(unsat_ngroups_frac).clip(0, ngroup), one pixel *)
MaxNgroups(self, slope, fullwell, i) ==
    LET time_to_saturate == RDiv(I(fullwell), ClippedSlope(slope, i))
        unsat_ramp_frac == RDiv(time_to_saturate, self.saturation_time)
        unsat_ngroups_frac == RMul(unsat_ramp_frac, I(self.ngroup))
    IN  Clip(RFloor(unsat_ngroups_frac), I(0), I(self.ngroup))

(* ma.masked_less(x, value), one element *)
MaskedLess(x, value) == [data |-> x, mask |-> RLt(x, I(value))]

(* ExposureSpecification.get_unsaturated_groups: the masked array returned *)
get_unsaturated_groups(self, slope, fullwell, full_saturation) ==
    [i \in DOMAIN slope |-> MaskedLess(MaxNgroups(self, slope, fullwell, i), full_saturation)]

---------------------------------------------------------------------------
(* numpy.ma arithmetic, one element: the result is masked where an operand
   is, and a division is also masked where the divisor is zero; a masked
   result keeps the data of the left operand *)

MConst(x) == [data |-> x, mask |-> FALSE]
MAdd(a, b) == LET m == a.mask \/ b.mask
              IN  [data |-> IF m THEN a.data ELSE RAdd(a.data, b.data), mask |-> m]
MSub(a, b) == LET m == a.mask \/ b.mask
              IN  [data |-> IF m THEN a.data ELSE RSub(a.data, b.data), mask |-> m]
MMul(a, b) == LET m == a.mask \/ b.mask
              IN  [data |-> IF m THEN a.data ELSE RMul(a.data, b.data), mask |-> m]
MDiv(a, b) == LET m == a.mask \/ b.mask \/ b.data.n = 0
              IN  [data |-> IF m THEN a.data ELSE RDiv(a.data, b.data), mask |-> m]

(* mutant of Filled: masked entries are filled with the finite default *)
FilledWithDefault(x) ==
    IF x.mask THEN [kind |-> "num", v |-> I(0)] ELSE [kind |-> "num", v |-> x.data]

(* ma.filled(x, fill_value=np.nan), one element *)
NaN == [kind |-> "nan"]
Num(x) == [kind |-> "num", v |-> x]
Filled(x) == IF x.mask THEN NaN ELSE Num(x.data)
IsNaN(y) == y.kind = "nan"
IsFinite(y) == y.kind = "num" /\ ~IsInf(y.v)

(* np.sqrt of a perfect square *)
Sqrt(m) == CHOOSE r \in 0..m : r * r = m

---------------------------------------------------------------------------
(* Standard variance model *)

(* the guard of lines 262: rejection is applied *)
RejectionApplies(self) ==
    ((self.nprerej # 0) \/ (self.npostrej # 0)) /\ (self.ngroup >= BrightNgroup)

(* mutant of RejectedGroups: the pre-rejected groups are taken from every pixel *)
RejectedGroupsAlwaysPre(self, v) ==
    IF RejectionApplies(self)
    THEN [v EXCEPT !.data = RSub(RSub(@, I(self.nprerej)), I(self.npostrej))]
    ELSE v

(* slope_variance, lines 255-267: the group count n of one pixel, from its
   valid-group entry v (a copy of the caller's entry) *)
RejectedGroups(self, v) ==
    IF RejectionApplies(self)
    THEN LET unsat_pixel == RLt(RSub(I(self.ngroup), RCeil(v.data)), I(self.npostrej))
             n1 == IF unsat_pixel THEN [v EXCEPT !.data = RSub(@, I(self.nprerej))] ELSE v
         IN  [n1 EXCEPT !.data = RSub(@, I(self.npostrej))]
    ELSE v

(* the number of reads m: nsample_total when the attribute exists *)
ReadCount(self) ==
    IF HasAttr(self, "nsample_total") THEN self.nsample_total ELSE self.nframe

(* the frame time of slope_variance: tsample when nsample_total and tsample exist *)
FrameTime(self) ==
    IF HasAttr(self, "nsample_total") /\ HasAttr(self, "tsample")
    THEN self.tsample ELSE I(self.tframe)

(* mutant of FudgeConflict: both excess parameters must be nonzero *)
FudgeConflictNeedsBoth(rn_fudge, excessp1, excessp2) ==
    rn_fudge # 1 /\ (excessp1 # 0 /\ excessp2 # 0)

(* the exclusion test of rn_variance, line 340 *)
FudgeConflict(rn_fudge, excessp1, excessp2) ==
    rn_fudge # 1 /\ (excessp1 # 0 \/ excessp2 # 0)

(* mutant of RnVarianceValue: excessp2 is divided by m, not by its square root *)
RnVarianceValueNoSqrt(self, readnoise, n, rn_fudge, excessp1, excessp2) ==
    LET m == ReadCount(self)
        tgroup == self.tgroup
        nsq == MMul(n, n)
        denom == MMul(MMul(MMul(MConst(I(m)), n), MSub(nsq, MConst(I(1)))),
                      MConst(RMul(tgroup, tgroup)))
        var_rn0 == MDiv(MConst(I(12 * readnoise * readnoise)), denom)
        var_rn1 == IF rn_fudge # 1 THEN MMul(var_rn0, MConst(I(rn_fudge))) ELSE var_rn0
        p1term == MMul(MDiv(MMul(MConst(I(12)), MSub(n, MConst(I(1)))),
                            MAdd(n, MConst(I(1)))),
                       MConst(I(excessp1 * excessp1)))
        p2term == MConst(RDiv(I(excessp2), I(m)))
        edenom0 == MMul(MSub(MConst(I(1)), n), MConst(tgroup))
        excess_variance == MDiv(MSub(p1term, p2term), MMul(edenom0, edenom0))
    IN  IF excessp1 # 0 \/ excessp2 # 0 THEN MAdd(var_rn1, excess_variance) ELSE var_rn1

(* rn_variance, lines 343-367, for one group count n (a masked element) *)
RnVarianceValue(self, readnoise, n, rn_fudge, excessp1, excessp2) ==
    LET m == ReadCount(self)
        tgroup == self.tgroup
        nsq == MMul(n, n)
        denom == MMul(MMul(MMul(MConst(I(m)), n), MSub(nsq, MConst(I(1)))),
                      MConst(RMul(tgroup, tgroup)))
        var_rn0 == MDiv(MConst(I(12 * readnoise * readnoise)), denom)
        var_rn1 == IF rn_fudge # 1 THEN MMul(var_rn0, MConst(I(rn_fudge))) ELSE var_rn0
        p1term == MMul(MDiv(MMul(MConst(I(12)), MSub(n, MConst(I(1)))),
                            MAdd(n, MConst(I(1)))),
                       MConst(I(excessp1 * excessp1)))
        p2term == MConst(RDiv(I(excessp2), I(Sqrt(m))))
        edenom0 == MMul(MSub(MConst(I(1)), n), MConst(tgroup))
        excess_variance == MDiv(MSub(p1term, p2term), MMul(edenom0, edenom0))
    IN  IF excessp1 # 0 \/ excessp2 # 0 THEN MAdd(var_rn1, excess_variance) ELSE var_rn1

(* the scalar group count of rn_variance when no array is given, line 334 *)
ScalarGroups(self) == self.ngroup - (self.nprerej + self.npostrej)

(* ExposureSpecification.rn_variance with unsat_ngroups an array:
   [err, ret, n]; n is the group count used *)
rn_variance(self, readnoise, unsat_ngroups, rn_fudge, excessp1, excessp2) ==
    IF FudgeConflict(rn_fudge, excessp1, excessp2)
    THEN [err |-> FudgeError]
    ELSE [err |-> NoErr,
          n |-> unsat_ngroups,
          ret |-> [i \in DOMAIN unsat_ngroups |->
                     RnVarianceValue(self, readnoise, unsat_ngroups[i],
                                     rn_fudge, excessp1, excessp2)]]

(* ExposureSpecification.rn_variance with unsat_ngroups=None: Python scalars,
   so a zero divisor raises ZeroDivisionError instead of masking *)
rn_variance_scalar(self, readnoise, rn_fudge, excessp1, excessp2) ==
    LET n == ScalarGroups(self)
        v == RnVarianceValue(self, readnoise, MConst(I(n)), rn_fudge, excessp1, excessp2)
    IN  IF FudgeConflict(rn_fudge, excessp1, excessp2)
        THEN [err |-> FudgeError]
        ELSE IF v.mask
        THEN [err |-> ZeroDivisionError, n |-> n]
        ELSE [err |-> NoErr, n |-> n, ret |-> v.data]

(* slope_variance, lines 286-289, one pixel *)
SlopeVarianceValue(self, variance_per_pix, dark_current, n, slope_rn_var) ==
    LET m == I(ReadCount(self))
        tframe == FrameTime(self)
        tgroup == self.tgroup
        one == MConst(I(1))
        nsq == MMul(n, n)
        msq1 == RSub(RMul(m, m), I(1))
        lead == MDiv(MMul(MConst(Norm(6, 5)), MAdd(nsq, one)),
                     MMul(n, MSub(nsq, one)))
        shot == MConst(RDiv(I(variance_per_pix + dark_current), tgroup))
        corr == MMul(MDiv(MMul(MConst(Norm(5, 3)), MConst(msq1)),
                          MMul(MConst(m), MAdd(nsq, one))),
                     MConst(RDiv(tframe, tgroup)))
    IN  MAdd(MMul(MMul(lead, shot), MSub(one, corr)), slope_rn_var)

(* ExposureSpecification.slope_variance: [err, ret, n]; ret is the pair
   (slope_var, slope_rn_var) after ma.filled, n the group counts used *)
slope_variance(self, rate, dark_current, readnoise, unsat_ngroups, rn_fudge, excessp1, excessp2) ==
    LET n == [i \in DOMAIN unsat_ngroups |-> RejectedGroups(self, unsat_ngroups[i])]
        rnv == rn_variance(self, readnoise, n, rn_fudge, excessp1, excessp2)
    IN  IF rnv.err # NoErr THEN [err |-> rnv.err]
        ELSE [err |-> NoErr,
              n |-> n,
              ret |-> [slope_var |->
                         [i \in DOMAIN n |->
                            Filled(SlopeVarianceValue(self, rate[i], dark_current,
                                                      n[i], rnv.ret[i]))],
                       slope_rn_var |-> [i \in DOMAIN n |-> Filled(rnv.ret[i])]]]

---------------------------------------------------------------------------
(* Target-acquisition variance model *)

(* mutant of ExtractTooLarge: ngroup_extract = ngroup is refused too *)
ExtractNotSmaller(self) == self.ngroup_extract >= self.ngroup

(* mutant of MinFactor: any number of pairs is accepted *)
MinFactorAnyPairs(npairs) ==
    IF npairs = 1 THEN [ok |-> TRUE, min_factor |-> I(1)]
    ELSE [ok |-> TRUE, min_factor |-> Norm(2, 3)]

(* mutant of ExtractTooLarge: the number of extracted groups is never checked *)
ExtractNeverTooLarge(self) == FALSE

(* mutant of Textract: the ramp is divided by the number of extracted groups *)
TextractPerGroup(self, n) ==
    MDiv(MMul(MConst(self.tgroup), MSub(n, MConst(I(1)))),
         MConst(I(self.ngroup_extract)))

(* the test of line 506 *)
ExtractTooLarge(self) == self.ngroup_extract > self.ngroup

(* lines 523-529: the factor of the minimum of npairs pairs, or "raise" *)
MinFactor(npairs) ==
    IF npairs = 1 THEN [ok |-> TRUE, min_factor |-> I(1)]
    ELSE IF npairs = 2 THEN [ok |-> TRUE, min_factor |-> Norm(2, 3)]
    ELSE [ok |-> FALSE]

(* line 515: textract of one pixel *)
Textract(self, n) ==
    MDiv(MMul(MConst(self.tgroup), MSub(n, MConst(I(1)))),
         MConst(I(self.ngroup_extract - 1)))

(* line 533, one pixel *)
SlopeRnVarTA(self, readnoise, min_factor, textract) ==
    MDiv(MConst(RDiv(RMul(min_factor, I(2 * readnoise * readnoise)), I(ReadCount(self)))),
         MMul(textract, textract))

(* line 534, one pixel *)
SlopeVarTA(self, variance_per_pix, dark_current, min_factor, textract, slope_rn_var) ==
    LET m == I(ReadCount(self))
        tframe == FrameTime(self)
        k == RDiv(RMul(Norm(1, 3), RSub(RMul(m, m), I(1))), m)
        lead == MDiv(MConst(RMul(min_factor, I(variance_per_pix + dark_current))), textract)
        corr == MDiv(MConst(RMul(k, tframe)), textract)
    IN  MAdd(MMul(lead, MSub(MConst(I(1)), corr)), slope_rn_var)

(* mutant of slope_variance_TA: the exclusion test of rn_variance is made *)
slope_variance_TA_Fudged(self, rate, dark_current, readnoise, unsat_ngroups, rn_fudge, excessp1, excessp2) ==
    LET n == unsat_ngroups
        mf == MinFactor(self.ngroup_extract - 1)
        textract == [i \in DOMAIN n |-> Textract(self, n[i])]
        rnv == [i \in DOMAIN n |-> SlopeRnVarTA(self, readnoise, mf.min_factor, textract[i])]
    IN  IF ExtractTooLarge(self) THEN [err |-> ExtractError]
        ELSE IF ~mf.ok THEN [err |-> PairsError]
        ELSE IF FudgeConflict(rn_fudge, excessp1, excessp2) THEN [err |-> FudgeError]
        ELSE [err |-> NoErr,
              n |-> n,
              textract |-> textract,
              min_factor |-> mf.min_factor,
              ret |-> [slope_var |->
                         [i \in DOMAIN n |->
                            Filled(SlopeVarTA(self, rate[i], dark_current, mf.min_factor,
                                              textract[i], rnv[i]))],
                       slope_rn_var |-> [i \in DOMAIN n |-> Filled(rnv[i])]]]

(* ExposureSpecificationTA.slope_variance: [err, ret, textract];
   rn_fudge, excessp1 and excessp2 are accepted and never read *)
slope_variance_TA(self, rate, dark_current, readnoise, unsat_ngroups, rn_fudge, excessp1, excessp2) ==
    LET n == unsat_ngroups
        mf == MinFactor(self.ngroup_extract - 1)
        textract == [i \in DOMAIN n |-> Textract(self, n[i])]
        rnv == [i \in DOMAIN n |-> SlopeRnVarTA(self, readnoise, mf.min_factor, textract[i])]
    IN  IF ExtractTooLarge(self) THEN [err |-> ExtractError]
        ELSE IF ~mf.ok THEN [err |-> PairsError]
        ELSE [err |-> NoErr,
              n |-> n,
              textract |-> textract,
              min_factor |-> mf.min_factor,
              ret |-> [slope_var |->
                         [i \in DOMAIN n |->
                            Filled(SlopeVarTA(self, rate[i], dark_current, mf.min_factor,
                                              textract[i], rnv[i]))],
                       slope_rn_var |-> [i \in DOMAIN n |-> Filled(rnv[i])]]]

---------------------------------------------------------------------------
(* Inputs of the operations *)

VarArgs ==
    [rate : {[i \in Pixels |-> i]}, dark_current : {1}, readnoise : {2},
     rn_fudge : {1, 2}, excessp1 : {0, 1}, excessp2 : {0, 1}]

SatArgs == [slope : SlopeArrays, fullwell : FullwellVals, full_saturation : FullSatVals]

---------------------------------------------------------------------------
(* State: pc is where the caller is, spec the specification object it holds,
   unsat_map the valid-group map it holds, call the last call it made
   (operation, arguments, outcome). *)

NoCall == [op |-> "none"]
NoMap == <<>>

Init == pc = "start" /\ spec = NoSpec /\ call = NoCall /\ unsat_map = NoMap

(* the caller constructs an ExposureSpecification from the parameters p *)
Construct(P) ==
    /\ pc = "start"
    /\ \E p \in P :
         LET r == ExposureSpecification_init("ExposureSpecification", p)
         IN  /\ spec' = r.obj
             /\ call' = [op |-> "init", args |-> p, err |-> r.err]
             /\ pc' = IF r.err = NoErr THEN "ready" ELSE "failed"
    /\ UNCHANGED unsat_map

(* the caller constructs an ExposureSpecificationTA from the parameters q *)
ConstructTA(Q) ==
    /\ pc = "start"
    /\ \E q \in Q :
         LET r == ExposureSpecificationTA_init(q)
         IN  /\ spec' = r.obj
             /\ call' = [op |-> "initTA", args |-> q, err |-> r.err]
             /\ pc' = IF r.err = NoErr THEN "ready" ELSE "failed"
    /\ UNCHANGED unsat_map

(* spec.get_unsaturated_groups(slope, fullwell, full_saturation), once per
   calculation *)
GetUnsaturatedGroups ==
    /\ pc = "ready"
    /\ unsat_map = NoMap
    /\ \E a \in SatArgs :
         call' = [op |-> "get_unsaturated_groups", args |-> a, err |-> NoErr,
                  ret |-> get_unsaturated_groups(spec, a.slope, a.fullwell,
                                                 a.full_saturation)]
    /\ pc' = "returned"
    /\ UNCHANGED <<spec, unsat_map>>

(* mutant of SlopeVariance: the rejection is applied to the caller's array,
   not to a copy of it *)
SlopeVarianceInPlace ==
    /\ pc = "ready"
    /\ spec.cls = "ExposureSpecification"
    /\ unsat_map # NoMap
    /\ \E a \in VarArgs :
         call' = [op |-> "slope_variance", args |-> a, unsat_ngroups |-> unsat_map]
                 @@ slope_variance(spec, a.rate, a.dark_current, a.readnoise,
                                   unsat_map, a.rn_fudge, a.excessp1, a.excessp2)
    /\ pc' = "returned"
    /\ unsat_map' = [i \in DOMAIN unsat_map |-> RejectedGroups(spec, unsat_map[i])]
    /\ UNCHANGED spec

(* standard spec.slope_variance(rate, dark_current, readnoise, unsat_map, ...) *)
SlopeVariance ==
    /\ pc = "ready"
    /\ spec.cls = "ExposureSpecification"
    /\ unsat_map # NoMap
    /\ \E a \in VarArgs :
         call' = [op |-> "slope_variance", args |-> a, unsat_ngroups |-> unsat_map]
                 @@ slope_variance(spec, a.rate, a.dark_current, a.readnoise,
                                   unsat_map, a.rn_fudge, a.excessp1, a.excessp2)
    /\ pc' = "returned"
    /\ UNCHANGED <<spec, unsat_map>>

(* target-acquisition spec.slope_variance(...) *)
SlopeVarianceTA ==
    /\ pc = "ready"
    /\ spec.cls = "ExposureSpecificationTA"
    /\ unsat_map # NoMap
    /\ \E a \in VarArgs :
         call' = [op |-> "slope_variance_TA", args |-> a, unsat_ngroups |-> unsat_map]
                 @@ slope_variance_TA(spec, a.rate, a.dark_current, a.readnoise,
                                      unsat_map, a.rn_fudge, a.excessp1, a.excessp2)
    /\ pc' = "returned"
    /\ UNCHANGED <<spec, unsat_map>>

(* spec.rn_variance(readnoise, unsat_map=<the map>, ...) *)
RnVariance ==
    /\ pc = "ready"
    /\ unsat_map # NoMap
    /\ \E a \in VarArgs :
         call' = [op |-> "rn_variance", args |-> a, unsat_ngroups |-> unsat_map]
                 @@ rn_variance(spec, a.readnoise, unsat_map,
                                a.rn_fudge, a.excessp1, a.excessp2)
    /\ pc' = "returned"
    /\ UNCHANGED <<spec, unsat_map>>

(* mutant of RnVarianceScalar: the call stores the number of groups left after
   rejection in the object *)
RnVarianceScalarShrinksNgroup ==
    /\ pc = "ready"
    /\ \E a \in VarArgs :
         call' = [op |-> "rn_variance_scalar", args |-> a]
                 @@ rn_variance_scalar(spec, a.readnoise,
                                       a.rn_fudge, a.excessp1, a.excessp2)
    /\ pc' = "returned"
    /\ spec' = [spec EXCEPT !.ngroup = ScalarGroups(spec)]
    /\ UNCHANGED unsat_map

(* spec.rn_variance(readnoise, ...) without a valid-group array *)
RnVarianceScalar ==
    /\ pc = "ready"
    /\ \E a \in VarArgs :
         call' = [op |-> "rn_variance_scalar", args |-> a]
                 @@ rn_variance_scalar(spec, a.readnoise,
                                       a.rn_fudge, a.excessp1, a.excessp2)
    /\ pc' = "returned"
    /\ UNCHANGED <<spec, unsat_map>>

(* the caller takes the outcome of the call; it keeps a valid-group map *)
Return ==
    /\ pc = "returned"
    /\ pc' = "ready"
    /\ call' = NoCall
    /\ unsat_map' = IF call.op = "get_unsaturated_groups" THEN call.ret
                        ELSE unsat_map
    /\ UNCHANGED spec

(* the caller starts a new calculation and drops its valid-group map *)
NewCalculation ==
    /\ pc = "ready"
    /\ unsat_map # NoMap
    /\ unsat_map' = NoMap
    /\ UNCHANGED <<pc, spec, call>>

ConstructOps == Construct(OpsParams)
ConstructExampleTA == ConstructTA({ExampleTAParams})
ConstructExampleNir == Construct({ExampleNirParams})
ConstructOpsTA == ConstructTA(OpsParamsTA)
ConstructTiming == Construct(TimingParams)
ConstructTimingTA == ConstructTA(TimingParamsTA)

Next ==
    \/ ConstructOps
    \/ ConstructOpsTA
    \/ ConstructExampleTA
    \/ GetUnsaturatedGroups
    \/ SlopeVariance
    \/ SlopeVarianceTA
    \/ RnVariance
    \/ RnVarianceScalar
    \/ Return
    \/ NewCalculation

Spec == Init /\ [][Next]_vars

(* the timing model alone, over every combination of timing parameters *)
NextTiming == ConstructTiming \/ ConstructTimingTA \/ ConstructExampleNir

SpecTiming == Init /\ [][NextTiming]_vars

---------------------------------------------------------------------------
(* Background noise calculator (bnc.py) *)

MaxDithers == 2
MaxOrders == 2

BncKeys == {"background", "configuration", "strategy", "calculation", "scene"}

(* a calc_input dict: the keys it has, and what the factories make of its
   values: dithers = 0 is a strategy without a 'dithers' attribute *)
CalcInputs ==
    [keys : SUBSET BncKeys, dithers : 0..MaxDithers,
     projection_type : {"image", "multiorder"}, norders : 1..MaxOrders]

(* str(KeyError(k)) is the quoted key; the message is kept with its key *)
MissingKeyError(k) ==
    [type |-> "EngineInputError",
     msg |-> "Missing information required for the calculation: %s", key |-> k]

(* mutant of FirstMissing: the keys are read in the opposite order *)
FirstMissingLastFirst(keys) ==
    IF "strategy" \notin keys THEN "strategy"
    ELSE IF "configuration" \notin keys THEN "configuration"
    ELSE IF "background" \notin keys THEN "background"
    ELSE "none"

(* lines 41-47: the subscriptions in their order; the first that fails
   raises KeyError *)
FirstMissing(keys) ==
    IF "background" \notin keys THEN "background"
    ELSE IF "configuration" \notin keys THEN "configuration"
    ELSE IF "strategy" \notin keys THEN "strategy"
    ELSE "none"

(* lines 81-93: one DetectorSignal per order and their combination, or one *)
SignalEvents(calc_input) ==
    IF calc_input.projection_type = "multiorder"
    THEN [o \in 1..calc_input.norders |-> "DetectorSignal"] \o <<"CombinedSignal">>
    ELSE <<"DetectorSignal">>

(* bnc(calc_input): [err, events, ...]; events are the collaborators called,
   in the order of the calls *)
bnc(calc_input) ==
    LET missing == FirstMissing(calc_input.keys)
        config == IF "calculation" \in calc_input.keys
                  THEN "CalculationConfig(config)" ELSE "CalculationConfig()"
        ndithers == IF calc_input.dithers > 0 THEN calc_input.dithers ELSE 1
    IN  IF missing # "none"
        THEN [err |-> MissingKeyError(missing), events |-> <<"build_empty_scene">>]
        ELSE [err |-> NoErr,
              events |-> <<"build_empty_scene", config, "Scene", "InstrumentFactory",
                           "StrategyFactory", "Observation", "get_random_seed",
                           "np.random.seed">>
                         \o SignalEvents(calc_input)
                         \o <<"DetectorNoise", "on_detector">>,
              ndithers |-> ndithers,
              ret |-> [dividend |-> "det_stddev.max()", divisor_squared |-> ndithers]]

(* the caller runs bnc on a calc_input *)
Bnc ==
    /\ pc = "start"
    /\ \E ci \in CalcInputs :
         LET r == bnc(ci)
         IN  /\ call' = [op |-> "bnc", args |-> ci] @@ r
             /\ pc' = IF r.err = NoErr THEN "returned" ELSE "failed"
    /\ UNCHANGED <<spec, unsat_map>>

---------------------------------------------------------------------------
(* Report constructor (report.py) *)

MaxPlanes == 2

ListKinds == {"list", "tuple"}
ProjectionTypes == {"image", "spec", "slitless", "multiorder", "slit", "cube"}
Methods == {"imagingapphot", "ifuapphot"}

(* the arguments of Report(...): the containers of the signals and noises,
   their length, and what the first signal and the strategy say *)
ReportArgs ==
    [signal_list : ListKinds, noise_list : ListKinds, nplanes : 0..MaxPlanes,
     projection_type : ProjectionTypes, method : Methods,
     dispersion_axis : {"x", "y"}]

ListError ==
    [type |-> "EngineOutputError",
     msg |-> "Must provide Report signals and noises as lists."]
ProjectionError(p) ==
    [type |-> "EngineOutputError", msg |-> "Unsupported projection_type: %s",
     projection_type |-> p]
AttributeError ==
    [type |-> "AttributeError", msg |-> "'Report' object has no attribute 'signal'"]

(* line 130: "in ('slitless')" tests for a substring of the string *)
InSlitless(p) == p \in {"slitless", "slit"}

(* lines 130-144: the detector-plane pixel grid *)
PixGrid(a) ==
    IF InSlitless(a.projection_type)
    THEN IF a.dispersion_axis = "x" THEN "Grid(grid.xsamp, orig.ysamp)"
         ELSE "Grid(grid.ysamp, orig.xsamp)"
    ELSE IF a.method \in {"ifuapphot", "ifunodinscene", "ifunodoffscene"}
    THEN "plane_grid"
    ELSE IF a.projection_type = "multiorder" THEN "IrregularGrid"
    ELSE "pixgrid_list[0]"

(* mutant of Layout: an unknown projection type is laid out as an image *)
LayoutImageByDefault(p) ==
    IF p = "spec"
    THEN [ok |-> TRUE,
          attrs |-> {"wave_pix", "cube_signal", "cube_noise", "cube_saturation",
                     "cube_plane_grid", "cube_sim"}]
    ELSE IF p \in {"slitless", "multiorder"}
    THEN [ok |-> TRUE,
          attrs |-> {"wave_pix", "detector_sn_unrot", "detector_signal_unrot",
                     "saturation_unrot"}]
    ELSE [ok |-> TRUE, attrs |-> {"wave_pix"}]

(* lines 148-179: the attributes set for the projection type, or the raise *)
Layout(p) ==
    IF p = "image" THEN [ok |-> TRUE, attrs |-> {"wave_pix"}]
    ELSE IF p = "spec"
    THEN [ok |-> TRUE,
          attrs |-> {"wave_pix", "cube_signal", "cube_noise", "cube_saturation",
                     "cube_plane_grid", "cube_sim"}]
    ELSE IF p \in {"slitless", "multiorder"}
    THEN [ok |-> TRUE,
          attrs |-> {"wave_pix", "detector_sn_unrot", "detector_signal_unrot",
                     "saturation_unrot"}]
    ELSE [ok |-> FALSE]

(* lines 68-207, after the attributes in before were set *)
ReportBody(a, before, nsub) ==
    LET attrs1 == before \cup {"input", "signals", "noises", "saturations"}
        attrs2 == attrs1 \cup {"exposure_specification", "projection_type", "wave",
                               "flux", "flux_plus_bg", "bg_pix", "extraction_area",
                               "background_area", "detector_sn", "detector_signal",
                               "grid", "pix_grid"}
        layout == Layout(a.projection_type)
    IN  IF "signal" \notin before
        THEN [err |-> AttributeError, attrs |-> attrs1, nsub |-> nsub]
        ELSE IF ~layout.ok
        THEN [err |-> ProjectionError(a.projection_type), attrs |-> attrs2,
              nsub |-> nsub, pix_grid |-> PixGrid(a)]
        ELSE [err |-> NoErr,
              attrs |-> attrs2 \cup layout.attrs \cup {"curves", "warnings"},
              nsub |-> nsub, pix_grid |-> PixGrid(a)]

(* line 40: only signal_list is tested *)
ListCheckFails(a) == a.signal_list # "list"

(* Report.__init__: [err, attrs, nsub]; attrs are the attributes of the
   report set when it returns or raises, nsub the sub-reports appended *)
Report_init(a) ==
    LET attrs0 == {"extracted", "sub_reports"}
        attrs1 == attrs0 \cup {"signal", "noise", "saturation"}
        sub == ReportBody(a, attrs1, 0)
    IN  IF ListCheckFails(a) THEN [err |-> ListError, attrs |-> {}, nsub |-> 0]
        ELSE IF a.nplanes = 0 THEN ReportBody(a, attrs0, 0)
        ELSE IF a.nplanes = 1 THEN ReportBody(a, attrs1, 0)
        ELSE IF sub.err # NoErr
        THEN [err |-> sub.err, attrs |-> attrs1, nsub |-> 0]
        ELSE ReportBody(a, attrs1, a.nplanes)

(* the caller constructs a Report *)
ConstructReport ==
    /\ pc = "start"
    /\ \E a \in ReportArgs :
         LET r == Report_init(a)
         IN  /\ call' = [op |-> "Report", args |-> a] @@ r
             /\ pc' = IF r.err = NoErr THEN "returned" ELSE "failed"
    /\ UNCHANGED <<spec, unsat_map>>

(* the orchestration boundary: the background noise calculator and the report *)
NextEngine == Bnc \/ ConstructReport

SpecEngine == Init /\ [][NextEngine]_vars

---------------------------------------------------------------------------
(* Properties *)

Constructed == call.op \in {"init", "initTA"} /\ call.err = NoErr

(* C1: for every specification constructed with a recognised detector type
   and valid parameters, 0 < duty_cycle <= 1. *)
C1_DutyCycleInUnitInterval ==
    Constructed => (RLt(I(0), spec.duty_cycle) /\ RLe(spec.duty_cycle, I(1)))

(* C2: construction fails with the unknown-detector ValueError, and the
   caller gets no object, exactly when det_type is neither 'h2rg' nor 'sias'. *)
C2_UnknownDetectorRaises ==
    call.op \in {"init", "initTA"} =>
        IF call.args.det_type \in {"h2rg", "sias"}
        THEN call.err = NoErr /\ pc = "ready" /\ spec # NoSpec
             /\ spec.det_type = call.args.det_type
        ELSE call.err = UnknownDetectorError /\ pc = "failed" /\ spec = NoSpec

C2_Witness ==
    call.op = "init" /\ call.args.det_type = "ccd" /\ call.err.type = "ValueError"

(* the valid-group count the saturation formula gives for the slope itself:
   floor((fullwell / slope) / saturation_time * ngroup) clipped to [0, ngroup] *)
FormulaGroups(self, slope_i, fullwell) ==
    Clip(RFloor(RMul(RDiv(RDiv(I(fullwell), I(slope_i)), self.saturation_time),
                     I(self.ngroup))),
         I(0), I(self.ngroup))

SatCall == call.op = "get_unsaturated_groups"

PixelAsFormula(i) ==
    /\ call.ret[i].data = FormulaGroups(spec, call.args.slope[i], call.args.fullwell)
    /\ call.ret[i].mask <=> RLt(call.ret[i].data, I(call.args.full_saturation))

(* C3 as claimed: every pixel with positive slope has the count
   floor((fullwell / slope) / saturation_time * ngroup) clipped to
   [0, ngroup], and is masked iff the count is below full_saturation. *)
C3_PositiveSlopeFormula ==
    SatCall => \A i \in Pixels : call.args.slope[i] > 0 => PixelAsFormula(i)

(* C3 amended: the same for every pixel whose slope is at least the clipping
   floor 1e-10. *)
C3_FloorSlopeFormula ==
    SatCall => \A i \in Pixels : call.args.slope[i] >= SlopeFloor => PixelAsFormula(i)

C3_Witness ==
    /\ SatCall
    /\ \E i, j \in Pixels :
         /\ call.args.slope[i] >= SlopeFloor
         /\ RLt(I(0), call.ret[i].data) /\ RLt(call.ret[i].data, I(spec.ngroup))
         /\ ~call.ret[i].mask
         /\ call.args.slope[j] >= SlopeFloor
         /\ call.ret[j].mask

(* C4: every pixel whose slope is zero or negative gets the count ngroup,
   and is not masked when ngroup >= full_saturation, whatever the other
   slopes of the array are. *)
C4_NonPositiveSlopeNeverSaturates ==
    SatCall => \A i \in Pixels :
        call.args.slope[i] <= 0 =>
            /\ call.ret[i].data = I(spec.ngroup)
            /\ (spec.ngroup >= call.args.full_saturation => ~call.ret[i].mask)

MonotoneInSlope ==
    \A i, j \in Pixels :
        call.args.slope[i] <= call.args.slope[j] =>
            RLe(call.ret[j].data, call.ret[i].data)

LongTimeToSaturate(i) ==
    RLe(spec.saturation_time, RDiv(I(call.args.fullwell), I(call.args.slope[i])))

(* C5 as claimed: within one call the count is non-increasing in the slope,
   and a pixel of positive slope with fullwell / slope >= saturation_time
   has the count ngroup. *)
C5_MonotoneAndFullAtSmallSlope ==
    SatCall =>
        /\ MonotoneInSlope
        /\ \A i \in Pixels :
             (call.args.slope[i] > 0 /\ LongTimeToSaturate(i)) =>
                 call.ret[i].data = I(spec.ngroup)

(* C5 amended: within one call the count is non-increasing in the slope, and
   a pixel whose slope is at least the clipping floor 1e-10 with
   fullwell / slope >= saturation_time has the count ngroup. *)
C5_MonotoneAndFullAboveFloor ==
    SatCall =>
        /\ MonotoneInSlope
        /\ \A i \in Pixels :
             (call.args.slope[i] >= SlopeFloor /\ LongTimeToSaturate(i)) =>
                 call.ret[i].data = I(spec.ngroup)

C5_Witness ==
    /\ SatCall
    /\ \E i, j \in Pixels :
         /\ SlopeFloor <= call.args.slope[i]
         /\ call.args.slope[i] < call.args.slope[j]
         /\ LongTimeToSaturate(i)
         /\ call.ret[i].data = I(spec.ngroup)
         /\ RLt(call.ret[j].data, call.ret[i].data)

VarCall == call.op \in {"slope_variance", "slope_variance_TA"} /\ call.err = NoErr

(* C6 as claimed: each entry of both returned arrays is not-a-number iff the
   pixel is masked in the valid-group map, and finite otherwise. *)
C6_NaNExactlyWhereMasked ==
    VarCall => \A i \in Pixels :
        /\ IsNaN(call.ret.slope_var[i]) <=> call.unsat_ngroups[i].mask
        /\ IsNaN(call.ret.slope_rn_var[i]) <=> call.unsat_ngroups[i].mask
        /\ ~call.unsat_ngroups[i].mask =>
               (IsFinite(call.ret.slope_var[i]) /\ IsFinite(call.ret.slope_rn_var[i]))

(* the group counts at which a divisor of the variance formula is zero *)
NoSlopeDefined(i) ==
    IF call.op = "slope_variance"
    THEN call.n[i].data \in {I(-1), I(0), I(1)}
    ELSE call.unsat_ngroups[i].data = I(1)

(* C6 amended: each entry of both returned arrays is not-a-number iff the
   pixel is masked in the valid-group map or its group count zeroes a divisor
   of the formula (the count left after rejection is -1, 0 or 1 in the
   standard model, the valid-group count is 1 in the target-acquisition
   model), and is finite otherwise. *)
C6_NaNWhereMaskedOrNoSlope ==
    VarCall => \A i \in Pixels :
        LET undefined == call.unsat_ngroups[i].mask \/ NoSlopeDefined(i)
        IN  /\ IsNaN(call.ret.slope_var[i]) <=> undefined
            /\ IsNaN(call.ret.slope_rn_var[i]) <=> undefined
            /\ ~undefined =>
                   (IsFinite(call.ret.slope_var[i]) /\ IsFinite(call.ret.slope_rn_var[i]))

C6_Witness ==
    /\ call.op = "slope_variance" /\ call.err = NoErr
    /\ \E i, j \in Pixels :
         /\ call.unsat_ngroups[i].mask /\ IsNaN(call.ret.slope_var[i])
         /\ ~call.unsat_ngroups[j].mask /\ IsFinite(call.ret.slope_var[j])
         /\ IsFinite(call.ret.slope_rn_var[j])

StdVarOp == call.op \in {"slope_variance", "rn_variance", "rn_variance_scalar"}

(* C7: the standard slope_variance and rn_variance raise the exclusion
   ValueError, and return nothing, exactly when rn_fudge != 1.0 and an excess
   parameter is nonzero. *)
C7_FudgeExclusion ==
    StdVarOp =>
        IF call.args.rn_fudge # 1 /\ (call.args.excessp1 # 0 \/ call.args.excessp2 # 0)
        THEN call.err = FudgeError /\ "ret" \notin DOMAIN call
        ELSE call.err # FudgeError

C7_Witness ==
    /\ call.op = "slope_variance" /\ call.err = FudgeError
    /\ call.args.excessp1 = 0 /\ call.args.excessp2 # 0

(* C8: with ngroup < 5 the group count every operation uses is the one it
   uses with nprerej = npostrej = 0. *)
C8_NoRejectionBelowBright ==
    (pc = "returned" /\ spec.ngroup < BrightNgroup) =>
        /\ (spec.det_type = "sias" =>
              spec.measurement_time =
                 get_times_mir([spec EXCEPT !.nprerej = 0, !.npostrej = 0]).measurement_time)
        /\ ((call.op \in {"slope_variance", "rn_variance"} /\ call.err = NoErr) =>
              call.n = call.unsat_ngroups)
        /\ ((call.op = "rn_variance_scalar" /\ call.err = NoErr) =>
              call.n = spec.ngroup)

TACall == call.op = "slope_variance_TA"

(* C9: the target-acquisition slope_variance raises the extract-count input
   error, and returns nothing, exactly when ngroup_extract > ngroup. *)
C9_ExtractBeyondNgroupRaises ==
    TACall =>
        IF spec.ngroup_extract > spec.ngroup
        THEN call.err = ExtractError /\ "ret" \notin DOMAIN call
        ELSE call.err # ExtractError

C9_Witness ==
    TACall /\ call.err = ExtractError /\ spec.ngroup_extract = spec.ngroup + 1

(* C10: the target-acquisition slope_variance raises an input error whenever
   ngroup_extract - 1 is neither 1 nor 2, and returns a variance pair iff
   ngroup_extract is 2 or 3 and ngroup_extract <= ngroup. *)
C10_OnlyTwoOrThreeExtracted ==
    TACall =>
        /\ (spec.ngroup_extract - 1 \notin {1, 2} => call.err.type = "EngineInputError")
        /\ (call.err = NoErr /\ "ret" \in DOMAIN call) <=>
               (spec.ngroup_extract \in {2, 3} /\ spec.ngroup_extract <= spec.ngroup)

C10_Witness ==
    /\ TACall /\ call.err = PairsError
    /\ spec.ngroup_extract = 4 /\ spec.ngroup_extract <= spec.ngroup

ExtractInBounds(s) == 1 < s.ngroup_extract /\ s.ngroup_extract <= s.ngroup

(* C11, as claimed: every ExposureSpecificationTA object that construction
   returns satisfies 1 < ngroup_extract <= ngroup, so that no operation is
   ever called on a target-acquisition specification violating the bound. *)
C11_ConstructedTAInBounds ==
    spec.cls = "ExposureSpecificationTA" => ExtractInBounds(spec)

(* C11, amended: construction stores ngroup_extract unchecked; the TA
   slope_variance raises an input error on a specification violating
   1 < ngroup_extract <= ngroup, so it returns a variance only within it. *)
C11_VarianceOnlyInBounds ==
    /\ (call.op = "initTA" /\ call.err = NoErr) =>
           spec.ngroup_extract = call.args.ngroup_extract
    /\ TACall =>
           IF ExtractInBounds(spec)
           THEN call.err.type \in {"none", "EngineInputError"}
           ELSE call.err.type = "EngineInputError"

C11_Witness ==
    /\ TACall
    /\ spec.ngroup_extract <= 1
    /\ call.err.type = "EngineInputError"
    /\ unsat_map # NoMap

(* C12: a sias specification has measurement_time
   nint*(ngroup-1-nprerej-npostrej)*tgroup when ngroup >= 5, and
   nint*(tfffr+ngroup*tgroup) - nint*tframe*0.5*(nframe-1) when ngroup < 5,
   which does not depend on nprerej and npostrej. *)
C12_SiasMeasurementTime ==
    (Constructed /\ spec.det_type = "sias") =>
        IF spec.ngroup >= 5
        THEN spec.measurement_time =
                 RMul(I(spec.nint * (spec.ngroup - 1 - spec.nprerej - spec.npostrej)),
                      spec.tgroup)
        ELSE spec.measurement_time =
                 Norm(2 * spec.nint * (spec.tfffr * spec.tgroup.d + spec.ngroup * spec.tgroup.n)
                        - spec.nint * spec.tframe * (spec.nframe - 1) * spec.tgroup.d,
                      2 * spec.tgroup.d)

C12_Witness ==
    /\ Constructed
    /\ spec.det_type = "sias"
    /\ spec.ngroup = 3
    /\ spec.nprerej = 2
    /\ spec.npostrej = 1
    /\ spec.nframe = 4
    /\ RLt(I(0), spec.measurement_time)

ExampleNirConstructed == call.op = "init" /\ call.args = ExampleNirParams

(* C13, as claimed: the h2rg example (tframe 10, nframe 1, nskip 0, ngroup 10,
   nint 1, nexp 1, tfffr 0, no frame0) has group time 10, saturation_time 90,
   exposure_time 100, measurement_time 90 and duty_cycle 0.9. *)
C13_ExampleAsClaimed ==
    ExampleNirConstructed =>
        /\ spec.tgroup = I(10)
        /\ spec.saturation_time = I(90)
        /\ spec.exposure_time = I(100)
        /\ spec.measurement_time = I(90)
        /\ spec.duty_cycle = Norm(9, 10)

(* C13, amended: the example has group time 10, saturation_time 100,
   exposure_time 110, measurement_time 90 and duty_cycle 9/11. *)
C13_ExampleAsComputed ==
    ExampleNirConstructed =>
        /\ spec.tgroup = I(10)
        /\ spec.saturation_time = I(100)
        /\ spec.exposure_time = I(110)
        /\ spec.measurement_time = I(90)
        /\ spec.duty_cycle = Norm(9, 11)

C13_Witness == ExampleNirConstructed /\ pc = "ready" /\ spec.ngroup = 10

(* C14: the TA slope_variance uses t_extract = tgroup*(n-1)/(ngroup_extract-1)
   for a pixel with n valid groups, with factor 1 when ngroup_extract = 2 and
   2/3 when ngroup_extract = 3; with ngroup = 11, ngroup_extract = 3 and
   n = 11, t_extract = 5*tgroup and the factor is 2/3. *)
C14_TextractAndFactor ==
    (TACall /\ call.err = NoErr) =>
        /\ spec.ngroup_extract = 2 => call.min_factor = I(1)
        /\ spec.ngroup_extract = 3 => call.min_factor = Norm(2, 3)
        /\ \A i \in Pixels :
             ~call.unsat_ngroups[i].mask =>
                LET n == call.unsat_ngroups[i].data
                IN  /\ call.textract[i].data =
                           RDiv(RMul(spec.tgroup, RSub(n, I(1))),
                                I(spec.ngroup_extract - 1))
                    /\ (spec.ngroup = 11 /\ spec.ngroup_extract = 3 /\ n = I(11)) =>
                           /\ call.textract[i].data = RMul(I(5), spec.tgroup)
                           /\ call.min_factor = Norm(2, 3)

C14_Witness ==
    /\ TACall
    /\ call.err = NoErr
    /\ spec.ngroup = 11
    /\ spec.ngroup_extract = 3
    /\ \E i \in Pixels :
         /\ call.unsat_ngroups[i] = [data |-> I(11), mask |-> FALSE]
         /\ call.textract[i].data = RMul(I(5), spec.tgroup)

(* C15: every constructed specification of either type has
   total_exposure_time = nexp*exposure_time, total_integrations = nexp*nint
   and nramps = nint*nexp. *)
C15_TotalsAreProducts ==
    Constructed =>
        /\ spec.total_exposure_time.n * spec.exposure_time.d =
               spec.nexp * spec.exposure_time.n * spec.total_exposure_time.d
        /\ spec.total_integrations = spec.nexp * spec.nint
        /\ spec.nramps = spec.nint * spec.nexp

C15_Witness ==
    /\ Constructed
    /\ spec.nexp = 2
    /\ spec.nint = 2
    /\ spec.total_integrations = 4
    /\ spec.nramps = 4
    /\ spec.total_exposure_time = RAdd(spec.exposure_time, spec.exposure_time)

(* C16: no saturation or variance call, returning or raising, changes the
   specification object: every input and derived attribute keeps the value
   it had when construction returned. *)
C16_SpecImmutable == [][(pc \in {"ready", "returned"}) => (spec' = spec)]_vars

C16_Witness ==
    /\ pc = "returned"
    /\ unsat_map # NoMap
    /\ call.op \in {"slope_variance", "slope_variance_TA"}
    /\ call.err # NoErr
    /\ HasAttr(spec, "nramps")

RequiredRank(k) ==
    CASE k = "background" -> 1 [] k = "configuration" -> 2 [] k = "strategy" -> 3

BuildEvents ==
    {"Scene", "InstrumentFactory", "StrategyFactory", "Observation",
     "get_random_seed", "np.random.seed"}

(* C18: bnc raises an input error naming the first of 'background',
   'configuration', 'strategy' (in that order) that calc_input lacks, before
   any scene, instrument, strategy or observation is built and before the
   random generator is seeded; with the three present it does not raise,
   whether or not 'calculation' is present. *)
C18_MissingKeyRaisesFirst ==
    call.op = "bnc" =>
        LET absent == {"background", "configuration", "strategy"} \ call.args.keys
            called == {call.events[i] : i \in DOMAIN call.events}
        IN  IF absent # {}
            THEN /\ call.err.type = "EngineInputError"
                 /\ call.err.key \in absent
                 /\ \A k \in absent : RequiredRank(call.err.key) <= RequiredRank(k)
                 /\ called \cap BuildEvents = {}
                 /\ ~HasAttr(call, "ret")
            ELSE /\ call.err = NoErr
                 /\ BuildEvents \subseteq called

C18_Witness ==
    /\ call.op = "bnc"
    /\ call.args.keys = {"strategy", "calculation"}
    /\ call.err = MissingKeyError("background")
    /\ pc = "failed"

(* C19: constructing a Report (of at least one signal) raises an OutputError
   whenever the signals or the noises are not supplied as a list, before any
   attribute of the report is set. *)
C19_NonListRaisesFirst ==
    (call.op = "Report" /\ call.args.nplanes >= 1
       /\ (call.args.signal_list # "list" \/ call.args.noise_list # "list")) =>
        /\ call.err.type = "EngineOutputError"
        /\ call.attrs = {}

(* C20: constructing a Report whose signal has a projection_type other than
   'image', 'spec', 'slitless' and 'multiorder' raises an OutputError, and
   for each of these four the unsupported-projection error is not raised. *)
C20_UnsupportedProjectionRaises ==
    (call.op = "Report" /\ call.args.nplanes >= 1) =>
        LET p == call.args.projection_type
        IN  IF p \in {"image", "spec", "slitless", "multiorder"}
            THEN call.err # ProjectionError(p)
                 /\ (call.args.signal_list = "list" => call.err = NoErr)
            ELSE call.err.type = "EngineOutputError"
                 /\ (call.args.signal_list = "list" => call.err = ProjectionError(p))

C20_Witness ==
    /\ call.op = "Report"
    /\ call.args.signal_list = "list"
    /\ call.args.nplanes = 2
    /\ call.args.projection_type = "slit"
    /\ call.err = ProjectionError("slit")
    /\ pc = "failed"

StdSlopeCall == call.op = "slope_variance" /\ call.err = NoErr

(* C21: in the standard slope_variance with ngroup >= 5 and nprerej or
   npostrej nonzero, the group count n of a pixel with valid-group count v is
   v - npostrej - nprerej when ngroup - ceil(v) < npostrej and v - npostrej
   otherwise; with nprerej = npostrej = 0 or ngroup < 5 it is v. *)
C21_RejectedGroupCount ==
    StdSlopeCall =>
        \A i \in Pixels :
            ~call.unsat_ngroups[i].mask =>
                LET v == call.unsat_ngroups[i].data
                    n == call.n[i].data
                IN  IF spec.ngroup >= 5 /\ (spec.nprerej # 0 \/ spec.npostrej # 0)
                    THEN IF RLt(RSub(I(spec.ngroup), RCeil(v)), I(spec.npostrej))
                         THEN n = RSub(v, I(spec.npostrej + spec.nprerej))
                         ELSE n = RSub(v, I(spec.npostrej))
                    ELSE n = v

C21_Witness ==
    /\ StdSlopeCall
    /\ spec.ngroup = 5
    /\ spec.nprerej = 1
    /\ spec.npostrej = 2
    /\ \E i, j \in Pixels :
         /\ call.unsat_ngroups[i] = [data |-> I(4), mask |-> FALSE]
         /\ call.n[i].data = I(1)
         /\ call.unsat_ngroups[j] = [data |-> I(2), mask |-> FALSE]
         /\ call.n[j].data = I(0)

ScalarCall == call.op = "rn_variance_scalar" /\ call.err = NoErr

(* the number of reads, by detector type *)
ReadsByDetector == IF spec.det_type = "sias" THEN spec.nsample_total ELSE spec.nframe

(* C22: rn_variance without a valid-group array uses n = ngroup - (nprerej +
   npostrej) and returns 12*readnoise^2 / (m*n*(n^2-1)*tgroup^2), multiplied
   by rn_fudge when rn_fudge # 1, plus (12*(n-1)/(n+1)*excessp1^2 -
   excessp2/sqrt(m)) / ((1-n)*tgroup)^2 when an excess parameter is nonzero,
   with m = nsample_total for sias and nframe for h2rg. *)
C22_ScalarReadNoiseVariance ==
    ScalarCall =>
        LET a == call.args
            m == ReadsByDetector
            n == spec.ngroup - (spec.nprerej + spec.npostrej)
            tg2 == RMul(spec.tgroup, spec.tgroup)
            base == RDiv(I(12 * a.readnoise * a.readnoise),
                         RMul(I(m * n * (n * n - 1)), tg2))
            fudged == IF a.rn_fudge # 1 THEN RMul(base, I(a.rn_fudge)) ELSE base
            excess == RDiv(RSub(Norm(12 * (n - 1) * a.excessp1 * a.excessp1, n + 1),
                                Norm(a.excessp2, Sqrt(m))),
                           RMul(I((1 - n) * (1 - n)), tg2))
        IN  /\ call.n = n
            /\ call.ret = IF a.excessp1 # 0 \/ a.excessp2 # 0
                          THEN RAdd(fudged, excess) ELSE fudged

C22_Witness ==
    /\ ScalarCall
    /\ ReadsByDetector = 4
    /\ call.args.excessp2 = 1
    /\ call.args.excessp1 = 1
    /\ call.n = 3
    /\ spec.nprerej = 1

(* C24: for a fully unsaturated pixel (valid-group count ngroup) in the
   bright regime (ngroup >= 5) the standard slope_variance uses the group
   count ngroup - nprerej - npostrej, the count of the scalar rn_variance,
   for every nprerej >= 0 and npostrej >= 0. *)
C24_FullRampCountAgrees ==
    (StdSlopeCall /\ spec.ngroup >= 5) =>
        \A i \in Pixels :
            call.unsat_ngroups[i] = [data |-> I(spec.ngroup), mask |-> FALSE] =>
                call.n[i].data = I(ScalarGroups(spec))

(* the constructor arguments a specification was made from, with other
   rejection counts *)
WithRejection(s, pre, post) ==
    [det_type |-> s.det_type, pattern |-> s.pattern, ngroup |-> s.ngroup,
     nint |-> s.nint, nexp |-> s.nexp, tframe |-> s.tframe, tfffr |-> s.tfffr,
     nframe |-> s.nframe, subarray |-> s.subarray, nskip |-> s.nskip,
     nprerej |-> pre, npostrej |-> post, nsample |-> s.nsample,
     nsample_skip |-> s.nsample_skip, frame0 |-> s.frame0]

(* C23: sias specifications that differ only in nprerej and npostrej have
   equal saturation_time and exposure_time, for ngroup >= 5 and ngroup < 5,
   and get_unsaturated_groups returns the same valid-group map for them. *)
C23_SiasSaturationIgnoresRejection ==
    (SatCall /\ spec.det_type = "sias") =>
        \A pre, post \in RejVals :
            LET other == ExposureSpecification_init(spec.cls, WithRejection(spec, pre, post)).obj
            IN  /\ other.saturation_time = spec.saturation_time
                /\ other.exposure_time = spec.exposure_time
                /\ get_unsaturated_groups(other, call.args.slope, call.args.fullwell,
                                          call.args.full_saturation) = call.ret

C23_Witness ==
    /\ SatCall
    /\ spec.det_type = "sias"
    /\ spec.ngroup >= 5
    /\ spec.nprerej = 2
    /\ spec.npostrej = 1
    /\ \E i, j \in Pixels : call.ret[i].mask /\ ~call.ret[j].mask

(* C25: the valid-group count and mask flag of a pixel depend only on that
   pixel's slope, the fullwell and the specification: slope arrays that agree
   at a pixel give the same result at that pixel. *)
C25_Pointwise ==
    SatCall =>
        \A other \in SlopeArrays : \A i \in Pixels :
            other[i] = call.args.slope[i] =>
                get_unsaturated_groups(spec, other, call.args.fullwell,
                                       call.args.full_saturation)[i] = call.ret[i]

(* C26: the standard slope_variance does not modify the caller's valid-group
   array, whether rejection is applied or not and whether it returns or
   raises: the array the caller holds after the call is the one it passed. *)
C26_CallerMapUnchanged ==
    [][/\ (call'.op = "slope_variance") =>
              (unsat_map' = unsat_map /\ call'.unsat_ngroups = unsat_map)
       /\ (call.op = "slope_variance") => (unsat_map' = unsat_map)]_vars

C26_Witness ==
    /\ call.op = "slope_variance"
    /\ call.err = NoErr
    /\ RejectionApplies(spec)
    /\ unsat_map = call.unsat_ngroups
    /\ call.n # unsat_map
    /\ \E i \in Pixels : ~unsat_map[i].mask /\ ~IsNaN(call.ret.slope_var[i])

(* C27: the target-acquisition slope_variance ignores rn_fudge, excessp1 and
   excessp2: with the other arguments fixed its outcome is the same for every
   value of the three, and it never raises the exclusion error. *)
C27_TAIgnoresFudge ==
    TACall =>
        /\ call.err # FudgeError
        /\ \A f \in {1, 2} : \A p1, p2 \in {0, 1} :
             LET r == slope_variance_TA(spec, call.args.rate, call.args.dark_current, call.args.readnoise, call.unsat_ngroups, f, p1, p2)
             IN  /\ r.err = call.err
                 /\ call.err = NoErr => r.ret = call.ret

C27_Witness ==
    /\ TACall
    /\ call.err = NoErr
    /\ call.args.rn_fudge = 2
    /\ call.args.excessp1 = 1
    /\ call.args.excessp2 = 1
    /\ \E i \in Pixels : IsFinite(call.ret.slope_var[i])

(* the standard specification made from the arguments q of a target
   acquisition, with tfffr = 0 and frame0 = False *)
StandardOf(q) ==
    ExposureSpecification_init("ExposureSpecification",
        [det_type |-> q.det_type, pattern |-> q.pattern, ngroup |-> q.ngroup,
         nint |-> q.nint, nexp |-> q.nexp, tframe |-> q.tframe, tfffr |-> 0,
         nframe |-> q.nframe, subarray |-> q.subarray, nskip |-> q.nskip,
         nprerej |-> q.nprerej, npostrej |-> q.npostrej, nsample |-> q.nsample,
         nsample_skip |-> q.nsample_skip, frame0 |-> FALSE]).obj

DerivedNames ==
    {"tgroup", "measurement_time", "exposure_time", "saturation_time", "duty_cycle",
     "total_exposure_time", "total_integrations", "nramps", "tsample", "nsample_total"}

(* C28: an ExposureSpecificationTA and an ExposureSpecification constructed
   with the same arguments (standard tfffr = 0, frame0 = False) have equal
   stored nsample and equal derived quantities, tsample and nsample_total
   included for sias. *)
C28_TATimingAsStandard ==
    (call.op = "initTA" /\ call.err = NoErr) =>
        LET std == StandardOf(call.args)
        IN  /\ spec.nsample = std.nsample
            /\ \A a \in DerivedNames :
                 /\ HasAttr(spec, a) <=> HasAttr(std, a)
                 /\ HasAttr(spec, a) => spec[a] = std[a]

(* C29: every constructed specification has exposure_time =
   nint * saturation_time when sias and exposure_time =
   nint * (tframe + saturation_time) when h2rg, so that saturation_time
   does not exceed exposure_time. *)
C29_ExposureFromSaturation ==
    Constructed =>
        /\ spec.det_type = "sias" =>
               spec.exposure_time = RMul(I(spec.nint), spec.saturation_time)
        /\ spec.det_type = "h2rg" =>
               spec.exposure_time =
                   RMul(I(spec.nint), RAdd(I(spec.tframe), spec.saturation_time))
        /\ RLe(spec.saturation_time, spec.exposure_time)

C29_Witness ==
    /\ Constructed
    /\ spec.det_type = "sias"
    /\ spec.nint = 2
    /\ spec.tfffr = 1
    /\ spec.ngroup = 3
    /\ RLt(spec.saturation_time, spec.exposure_time)


====
